---- MODULE Spec2Model ----
(***************************************************************************)
(* Model of rmb-parser/src/expression.rs: the recursive-descent expression *)
(* parser with its precedence-climbing core.                               *)
(*                                                                         *)
(* The lexer state is a token sequence plus a cursor (the number of tokens *)
(* already consumed).  Every parse routine is an operator from the cursor  *)
(* at which it is called to an outcome record                              *)
(*     [st, expr, pos, msg]                                                *)
(* st = "Ok"      the routine returned Ok(expr), cursor left at pos        *)
(* st = "Err"     the routine returned Err (a miette diagnostic)           *)
(* st = "Panic"   todo!() / unreachable!() aborted the process             *)
(* st = "Diverge" a loop came back to its head without moving the cursor   *)
(*                (its control flow reads the lexer only: it repeats for   *)
(*                ever)                                                    *)
(* Token streams hold valid tokens only: the lexer's own errors are not    *)
(* part of the model.                                                      *)
(***************************************************************************)
EXTENDS Integers, Sequences, FiniteSets, TLC

VARIABLES tokens, cursor, call, result

vars == <<tokens, cursor, call, result>>

(***************************************************************************)
(* precedences                                                             *)
(***************************************************************************)
BASE == 0
SUM == 3
MUL == 4
ASSOC == 5
APPLY == 6

(***************************************************************************)
(* Tokens (rmb_lexer::token).  kind is the Kind variant; for Kind::Op and  *)
(* Kind::Value it is the name of the Operator / Value variant.             *)
(***************************************************************************)
Location(s, e) == [start_byte |-> s, end_byte |-> e]

PrimitiveKinds == {"Int", "UInt", "Float", "Bool"}

ValueKinds == PrimitiveKinds \cup {"Ident", "Str"}

OperatorKinds == {"Plus", "Minus", "Star", "Slash", "And", "Or", "EqualEqual",
                  "NotEqual", "LeftParen", "RightParen", "LeftBrace",
                  "RightBrace", "Comma", "Colon", "SemiColon", "Equal"}

\* The i-th token of the source (1-based): one byte wide, one byte of
\* whitespace before the next one.
TokenAt(i, k) == [kind |-> k, location |-> Location(2 * i, 2 * i + 1)]

\* SUM and MUL exchanged
get_precedence_swapped(operator) ==
    CASE operator \in {"Plus", "Minus"} -> MUL
      [] operator \in {"Star", "Slash"} -> SUM
      [] operator = "And" -> ASSOC
      [] operator \in {"LeftParen", "EqualEqual", "NotEqual"} -> APPLY
      [] OTHER -> BASE

get_precedence(operator) ==
    CASE operator \in {"Plus", "Minus"} -> SUM
      [] operator \in {"Star", "Slash"} -> MUL
      [] operator = "And" -> ASSOC
      [] operator \in {"LeftParen", "EqualEqual", "NotEqual"} -> APPLY
      [] OTHER -> BASE

\* Kind::is_binary_op
is_binary_op(kind) ==
    kind \in {"Plus", "Minus", "Star", "Slash", "And", "EqualEqual", "NotEqual"}

(***************************************************************************)
(* Lexer: peek / next / expect / expect_one_of over the cursor.            *)
(***************************************************************************)
\* peek() at cursor pos is tokens[pos + 1], or None when pos >= Len(tokens);
\* next() is the same and moves the cursor to pos + 1.
NoToken == [kind |-> "None", location |-> Location(0, 0)]

expect_one_of(pos, kinds) ==
    IF pos >= Len(tokens)
    THEN [st |-> "Err", token |-> NoToken, pos |-> pos, msg |-> "unexpected end of file"]
    ELSE IF tokens[pos + 1].kind \in kinds
         THEN [st |-> "Ok", token |-> tokens[pos + 1], pos |-> pos + 1, msg |-> ""]
         ELSE [st |-> "Err", token |-> NoToken, pos |-> pos + 1, msg |-> "unexpected token"]

expect(pos, kind) == expect_one_of(pos, {kind})

(***************************************************************************)
(* Outcomes                                                                *)
(***************************************************************************)
NoExpr == [type |-> "None", location |-> Location(0, 0)]

OkR(e, p) == [st |-> "Ok", expr |-> e, pos |-> p, msg |-> ""]

ErrR(m, p) == [st |-> "Err", expr |-> NoExpr, pos |-> p, msg |-> m]

PanicR(m, p) == [st |-> "Panic", expr |-> NoExpr, pos |-> p, msg |-> m]

\* One pass through a loop body: exit tells whether the loop was left,
\* acc is the loop's accumulator (a Vec, or `left`).
StepR(s, x, a, p, m) == [st |-> s, exit |-> x, acc |-> a, pos |-> p, msg |-> m]

\* `r?` followed by the rest of the routine (as on lines 68, 80, 84): a
\* failure of r is returned at once
Try(r, Rest(_)) ==
    IF r.st # "Ok"
    THEN [st |-> r.st, expr |-> NoExpr, pos |-> r.pos, msg |-> r.msg]
    ELSE Rest(r)

\* `r?` inside a loop body (lines 80, 149, 152, 232, 314)
TryStep(r, acc, Rest(_)) ==
    IF r.st # "Ok" THEN StepR(r.st, TRUE, acc, r.pos, r.msg) ELSE Rest(r)

\* back to the head of a loop (lines 70, 138, 219, 291) after the pass r that
\* began at cursor p
Continue(r, p, Again(_, _)) ==
    IF r.st # "Ok" \/ r.exit THEN r
    ELSE IF r.pos <= p THEN StepR("Diverge", TRUE, r.acc, p, "loop without progress")
    ELSE Again(r.pos, r.acc)

RECURSIVE parse_expression(_)
RECURSIVE block_loop(_, _)
RECURSIVE parse_if_expression(_)
RECURSIVE if_loop(_, _)
RECURSIVE fun_call_loop(_, _)
RECURSIVE parse_with_precedence(_, _)
RECURSIVE precedence_loop(_, _, _)

parse_identifier(pos) ==
    IF pos >= Len(tokens)
    THEN ErrR("unexpected end of file", pos)
    ELSE IF tokens[pos + 1].kind = "Ident"
         THEN OkR([type |-> "Ident", name |-> "x", location |-> tokens[pos + 1].location],
                  pos + 1)
         ELSE ErrR("", pos + 1)

parse_primitive(pos) ==
    IF pos < Len(tokens) /\ tokens[pos + 1].kind \in PrimitiveKinds
    THEN OkR([type |-> CASE tokens[pos + 1].kind = "Int" -> "IntLiteral"
                         [] tokens[pos + 1].kind = "UInt" -> "UintLiteral"
                         [] tokens[pos + 1].kind = "Float" -> "FloatLiteral"
                         [] OTHER -> "Bool",
              value |-> 1,
              location |-> tokens[pos + 1].location], pos + 1)
    ELSE PanicR("unreachable", pos)

parse_value(pos) ==
    IF pos >= Len(tokens) THEN PanicR("unreachable", pos)
    ELSE IF tokens[pos + 1].kind \notin ValueKinds THEN PanicR("unreachable", pos)
    ELSE IF tokens[pos + 1].kind \in PrimitiveKinds THEN parse_primitive(pos)
    ELSE IF tokens[pos + 1].kind = "Ident" THEN parse_identifier(pos)
    ELSE PanicR("todo", pos)

block_loop_step(p, expressions) ==
    IF p >= Len(tokens) \/ tokens[p + 1].kind = "RightBrace"
    THEN StepR("Ok", TRUE, expressions, p, "")
    ELSE TryStep(parse_expression(p), expressions, LAMBDA expr :
         StepR("Ok", FALSE, Append(expressions, expr.expr), expr.pos, ""))

block_loop(p, expressions) ==
    Continue(block_loop_step(p, expressions), p, LAMBDA q, acc : block_loop(q, acc))

parse_expr_block(pos) ==
    Try(expect(pos, "LeftBrace"), LAMBDA block_start :
    Try(block_loop(block_start.pos, <<>>), LAMBDA body :
    Try(expect(body.pos, "RightBrace"), LAMBDA block_end :
    OkR([type |-> "Block",
         expressions |-> body.acc,
         location |-> Location(block_start.token.location.start_byte,
                               block_end.token.location.end_byte)],
        block_end.pos))))

\* lines 109-115 and 251-255: the initializer / assigned value
parse_initializer(pos) ==
    IF pos >= Len(tokens) THEN PanicR("unreachable", pos)
    ELSE IF tokens[pos + 1].kind = "LeftBrace" THEN parse_expr_block(pos)
    ELSE parse_expression(pos)

\* lines 99-105: the optional `: IDENT`; acc is Option<Expression>
parse_type_annotation(pos) ==
    IF pos < Len(tokens) /\ tokens[pos + 1].kind = "Colon"
    THEN TryStep(parse_identifier(pos + 1), <<>>, LAMBDA typ :
         StepR("Ok", TRUE, <<typ.expr>>, typ.pos, ""))
    ELSE StepR("Ok", TRUE, <<>>, pos, "")

\* line 95 read off the wrong keyword
is_mutable_inverted(keyword) == keyword.kind = "Const"

\* line 95
is_mutable(keyword) == keyword.kind = "Var"

parse_variable(pos) ==
    Try(expect_one_of(pos, {"Var", "Const"}), LAMBDA keyword :
    Try(parse_identifier(keyword.pos), LAMBDA ident :
    Try(parse_type_annotation(ident.pos), LAMBDA typ :
    Try(expect(typ.pos, "Equal"), LAMBDA eq :
    Try(parse_initializer(eq.pos), LAMBDA value :
    Try(expect(value.pos, "SemiColon"), LAMBDA semi :
    OkR([type |-> "Var",
         mutable |-> is_mutable(keyword.token),
         typ |-> typ.acc,
         name |-> ident.expr.name,
         value |-> value.expr,
         location |-> Location(keyword.token.location.start_byte,
                               value.expr.location.end_byte)],
        semi.pos)))))))

if_loop_step(p, falsy_branches) ==
    IF p >= Len(tokens) THEN StepR("Ok", TRUE, falsy_branches, p, "")
    ELSE IF tokens[p + 1].kind = "Else"
    THEN IF p + 1 < Len(tokens) /\ tokens[p + 2].kind = "If"
         THEN TryStep(parse_if_expression(p + 1), falsy_branches, LAMBDA else_if :
              StepR("Ok", FALSE, Append(falsy_branches, else_if.expr), else_if.pos, ""))
         ELSE TryStep(parse_expr_block(p + 1), falsy_branches, LAMBDA else_block :
              StepR("Ok", TRUE, Append(falsy_branches, else_block.expr), else_block.pos, ""))
    ELSE StepR("Ok", TRUE, falsy_branches, p, "")

if_loop(p, falsy_branches) ==
    Continue(if_loop_step(p, falsy_branches), p, LAMBDA q, acc : if_loop(q, acc))

\* lines 161-164
if_end(falsy_branches, body) ==
    IF Len(falsy_branches) > 0
    THEN falsy_branches[Len(falsy_branches)].location.end_byte
    ELSE body.location.end_byte

parse_if_expression(pos) ==
    Try(expect(pos, "If"), LAMBDA keyword :
    Try(parse_expression(keyword.pos), LAMBDA condition :
    Try(parse_expr_block(condition.pos), LAMBDA body :
    Try(if_loop(body.pos, <<>>), LAMBDA branches :
    OkR([type |-> "If",
         condition |-> condition.expr,
         truthy |-> body.expr,
         falsy |-> branches.acc,
         location |-> Location(keyword.token.location.start_byte,
                               if_end(branches.acc, body.expr))],
        branches.pos)))))

parse_operation(pos) ==
    IF pos >= Len(tokens) THEN PanicR("unreachable", pos)
    ELSE IF tokens[pos + 1].kind \notin OperatorKinds THEN PanicR("unreachable", pos)
    ELSE IF tokens[pos + 1].kind = "LeftParen"
    THEN Try(parse_with_precedence(pos + 1, BASE), LAMBDA left :
         Try(expect(left.pos, "RightParen"), LAMBDA close :
         OkR(left.expr, close.pos)))
    ELSE PanicR("todo", pos)

\* lines 224-227 without the `lexer.next()`: the comma is never consumed
fun_call_loop_step_keeps_comma(p, arguments) ==
    IF p >= Len(tokens) \/ tokens[p + 1].kind = "RightParen"
    THEN StepR("Ok", TRUE, arguments, p, "")
    ELSE IF tokens[p + 1].kind = "Comma"
    THEN StepR("Ok", FALSE, arguments, p, "")
    ELSE TryStep(parse_expression(p), arguments, LAMBDA arg :
         StepR("Ok", FALSE, Append(arguments, arg.expr), arg.pos, ""))

fun_call_loop_step(p, arguments) ==
    IF p >= Len(tokens) \/ tokens[p + 1].kind = "RightParen"
    THEN StepR("Ok", TRUE, arguments, p, "")
    ELSE IF tokens[p + 1].kind = "Comma"
    THEN StepR("Ok", FALSE, arguments, p + 1, "")
    ELSE TryStep(parse_expression(p), arguments, LAMBDA arg :
         StepR("Ok", FALSE, Append(arguments, arg.expr), arg.pos, ""))

fun_call_loop(p, arguments) ==
    Continue(fun_call_loop_step(p, arguments), p, LAMBDA q, acc : fun_call_loop(q, acc))

parse_fun_call(pos, ident) ==
    Try(expect(pos, "LeftParen"), LAMBDA open :
    Try(fun_call_loop(open.pos, <<>>), LAMBDA args :
    Try(expect(args.pos, "RightParen"), LAMBDA close_paren :
    OkR([type |-> "FunCall",
         ident |-> ident,
         arguments |-> args.acc,
         location |-> Location(ident.location.start_byte,
                               close_paren.token.location.end_byte)],
        close_paren.pos))))

parse_assign(pos, left) ==
    Try(expect(pos, "Equal"), LAMBDA eq :
    Try(parse_initializer(eq.pos), LAMBDA value :
    Try(expect(value.pos, "SemiColon"), LAMBDA closing :
    OkR([type |-> "Assign",
         ident |-> left,
         value |-> value.expr,
         location |-> Location(left.location.start_byte,
                               closing.token.location.end_byte)],
        closing.pos))))

parse_return_expression(pos) ==
    Try(expect(pos, "Return"), LAMBDA keyword :
    Try(parse_expression(keyword.pos), LAMBDA value :
    Try(expect(value.pos, "SemiColon"), LAMBDA ending_semi :
    OkR([type |-> "Return",
         value |-> value.expr,
         location |-> Location(keyword.token.location.start_byte,
                               ending_semi.token.location.end_byte)],
        ending_semi.pos))))

\* lines 272-281: the primary expression of parse_with_precedence
parse_primary(pos) ==
    IF pos >= Len(tokens) THEN PanicR("todo", pos)
    ELSE CASE tokens[pos + 1].kind \in ValueKinds -> parse_value(pos)
           [] tokens[pos + 1].kind \in OperatorKinds -> parse_operation(pos)
           [] tokens[pos + 1].kind = "Return" -> parse_return_expression(pos)
           [] tokens[pos + 1].kind = "If" -> parse_if_expression(pos)
           [] OTHER -> PanicR("todo", pos)

\* lines 316-322: a fold that forgets the right operand in the span
fold_binary_op_left_span(left, operator, right) ==
    [type |-> "BinaryOp",
     lhs |-> left,
     operator |-> operator,
     rhs |-> right,
     location |-> Location(left.location.start_byte, left.location.end_byte)]

\* lines 316-322: the accumulated left side and the new right side folded
fold_binary_op(left, operator, right) ==
    [type |-> "BinaryOp",
     lhs |-> left,
     operator |-> operator,
     rhs |-> right,
     location |-> Location(left.location.start_byte, right.location.end_byte)]

\* line 306 with `<` for `<=`: an operator of the same strength is absorbed
\* by the right operand
precedence_loop_step_strict(p, left, min_precedence) ==
    IF p >= Len(tokens) THEN StepR("Ok", TRUE, left, p, "")
    ELSE IF tokens[p + 1].kind \notin OperatorKinds THEN StepR("Ok", TRUE, left, p, "")
    ELSE IF ~is_binary_op(tokens[p + 1].kind) THEN StepR("Ok", TRUE, left, p, "")
    ELSE IF get_precedence(tokens[p + 1].kind) < min_precedence
    THEN StepR("Ok", TRUE, left, p, "")
    ELSE TryStep(parse_with_precedence(p + 1, get_precedence(tokens[p + 1].kind)), left,
         LAMBDA right :
         StepR("Ok", FALSE, fold_binary_op(left, tokens[p + 1].kind, right.expr),
               right.pos, ""))

\* lines 291-323: one pass through the operator loop
precedence_loop_step(p, left, min_precedence) ==
    IF p >= Len(tokens) THEN StepR("Ok", TRUE, left, p, "")
    ELSE IF tokens[p + 1].kind \notin OperatorKinds THEN StepR("Ok", TRUE, left, p, "")
    ELSE IF ~is_binary_op(tokens[p + 1].kind) THEN StepR("Ok", TRUE, left, p, "")
    ELSE IF get_precedence(tokens[p + 1].kind) <= min_precedence
    THEN StepR("Ok", TRUE, left, p, "")
    ELSE TryStep(parse_with_precedence(p + 1, get_precedence(tokens[p + 1].kind)), left,
         LAMBDA right :
         StepR("Ok", FALSE, fold_binary_op(left, tokens[p + 1].kind, right.expr),
               right.pos, ""))

precedence_loop(p, left, min_precedence) ==
    Continue(precedence_loop_step(p, left, min_precedence), p,
             LAMBDA q, acc : precedence_loop(q, acc, min_precedence))

\* lines 283-325: the postfix check, then the operator loop
after_primary(p, left, min_precedence) ==
    IF left.type = "Ident" /\ p < Len(tokens) /\ tokens[p + 1].kind = "LeftParen"
    THEN parse_fun_call(p, left)
    ELSE IF left.type = "Ident" /\ p < Len(tokens) /\ tokens[p + 1].kind = "Equal"
    THEN parse_assign(p, left)
    ELSE Try(precedence_loop(p, left, min_precedence), LAMBDA loop : OkR(loop.acc, loop.pos))

\* lines 283-289 without the early return: the call or assignment becomes
\* the left side of the operator loop
postfix_no_return(p, left) ==
    IF left.type = "Ident" /\ p < Len(tokens) /\ tokens[p + 1].kind = "LeftParen"
    THEN parse_fun_call(p, left)
    ELSE IF left.type = "Ident" /\ p < Len(tokens) /\ tokens[p + 1].kind = "Equal"
    THEN parse_assign(p, left)
    ELSE OkR(left, p)

parse_with_precedence_no_return(pos, min_precedence) ==
    Try(parse_primary(pos), LAMBDA primary :
    Try(postfix_no_return(primary.pos, primary.expr), LAMBDA postfix :
    Try(precedence_loop(postfix.pos, postfix.expr, min_precedence), LAMBDA loop :
    OkR(loop.acc, loop.pos))))

parse_with_precedence(pos, min_precedence) ==
    Try(parse_primary(pos), LAMBDA primary :
    after_primary(primary.pos, primary.expr, min_precedence))

parse_expression(pos) ==
    IF pos >= Len(tokens) THEN PanicR("unreachable", pos)
    ELSE IF tokens[pos + 1].kind \in {"Var", "Const"}
         THEN parse_variable(pos)
         ELSE parse_with_precedence(pos, BASE)

(***************************************************************************)
(* The tree                                                                *)
(***************************************************************************)
\* the direct children of a node, in source order
Children(n) ==
    CASE n.type = "Block" -> n.expressions
      [] n.type = "Var" -> n.typ \o <<n.value>>
      [] n.type = "Assign" -> <<n.ident, n.value>>
      [] n.type = "If" -> <<n.condition, n.truthy>> \o n.falsy
      [] n.type = "BinaryOp" -> <<n.lhs, n.rhs>>
      [] n.type = "FunCall" -> <<n.ident>> \o n.arguments
      [] n.type = "Return" -> <<n.value>>
      [] OTHER -> <<>>

\* every node of a tree, the root first
RECURSIVE Nodes(_)
RECURSIVE NodesOfAll(_)
Nodes(n) == <<n>> \o NodesOfAll(Children(n))
NodesOfAll(ns) == IF ns = <<>> THEN <<>> ELSE Nodes(Head(ns)) \o NodesOfAll(Tail(ns))

Inside(n, tree) == \E i \in DOMAIN Nodes(tree) : Nodes(tree)[i] = n

(***************************************************************************)
(* Token streams: concatenations of at most n phrases.                     *)
(***************************************************************************)
RECURSIVE Flatten(_)
Flatten(ps) == IF ps = <<>> THEN <<>> ELSE Head(ps) \o Flatten(Tail(ps))

Streams(Phrases, n) ==
    { Flatten(ps) : ps \in UNION { [1..m -> Phrases] : m \in 0..n } }

Lex(kinds) == [i \in 1..Len(kinds) |-> TokenAt(i, kinds[i])]

Kinds == [i \in 1..Len(tokens) |-> tokens[i].kind]

MaxArith == 4
MaxIf == 5
MaxDecl == 3
MaxCall == 3
MaxGroup == 3
MaxNest == 4

ArithPhrases == {<<"Int">>, <<"Plus", "Int">>, <<"Minus", "Int">>,
                 <<"Star", "Int">>, <<"Slash", "Int">>, <<"Plus">>}

IfPhrases == {<<"If", "Ident", "LeftBrace", "RightBrace">>, <<"Else">>,
              <<"LeftBrace", "RightBrace">>, <<"LeftBrace", "Int", "RightBrace">>}

DeclPhrases == {<<"Var", "Ident">>, <<"Const", "Ident">>, <<"Colon", "Ident">>,
                <<"Equal">>, <<"Equal", "Int">>, <<"Equal", "LeftBrace", "RightBrace">>,
                <<"SemiColon">>, <<"Plus", "Int">>}

CallPhrases == {<<"Ident", "LeftParen">>, <<"Ident", "Equal">>, <<"Int">>,
                <<"RightParen">>, <<"Int", "RightParen">>,
                <<"Int", "SemiColon">>, <<"Plus", "Int">>,
                <<"Comma">>, <<"Int", "Comma">>}

GroupPhrases == {<<"LeftParen">>, <<"LeftParen", "Int">>, <<"LeftParen", "Ident">>,
                 <<"RightParen">>, <<"Int">>, <<"Plus", "Int">>,
                 <<"EqualEqual", "Bool">>, <<"Return", "Int">>, <<"SemiColon">>}

NestPhrases == {<<"If", "Ident", "LeftBrace">>, <<"RightBrace">>,
                <<"Var", "Ident", "Equal">>, <<"Int", "SemiColon">>,
                <<"Return">>, <<"SemiColon">>}

ArithStreams == Streams(ArithPhrases, MaxArith)
IfStreams == Streams(IfPhrases, MaxIf)
DeclStreams == Streams(DeclPhrases, MaxDecl)
CallStreams == Streams(CallPhrases, MaxCall)
GroupStreams == Streams(GroupPhrases, MaxGroup)
NestStreams == Streams(NestPhrases, MaxNest)

NoCall == [fn |-> "none", min_precedence |-> 0, start |-> 0]

NoResult == [st |-> "None", expr |-> NoExpr, pos |-> 0, msg |-> ""]

InitOn(inputs) ==
    /\ tokens \in { Lex(s) : s \in inputs }
    /\ cursor = 0
    /\ call = NoCall
    /\ result = NoResult

Init ==
    InitOn(ArithStreams \cup IfStreams \cup DeclStreams \cup CallStreams
              \cup GroupStreams \cup NestStreams)

InitArith == InitOn(ArithStreams)
InitIf == InitOn(IfStreams)
InitDecl == InitOn(DeclStreams)
InitCall == InitOn(CallStreams)

\* fail fast: nothing is parsed after an Err, and a panic ends the process
Live == result.st \in {"None", "Ok"}

ParseExpression ==
    /\ Live
    /\ call' = [fn |-> "parse_expression", min_precedence |-> BASE, start |-> cursor]
    /\ result' = parse_expression(cursor)
    /\ cursor' = result'.pos
    /\ UNCHANGED tokens

ParseWithPrecedence ==
    /\ Live
    /\ \E min_precedence \in {BASE, SUM, MUL, ASSOC, APPLY} :
          /\ call' = [fn |-> "parse_with_precedence",
                      min_precedence |-> min_precedence, start |-> cursor]
          /\ result' = parse_with_precedence(cursor, min_precedence)
    /\ cursor' = result'.pos
    /\ UNCHANGED tokens

Next == ParseExpression \/ ParseWithPrecedence

Spec == Init /\ [][Next]_vars
SpecArith == InitArith /\ [][Next]_vars
SpecIf == InitIf /\ [][Next]_vars
SpecDecl == InitDecl /\ [][Next]_vars
SpecCall == InitCall /\ [][Next]_vars

(***************************************************************************)
(* Vocabulary of the properties                                            *)
(***************************************************************************)
\* the index of the token whose location ends at byte e (see TokenAt)
IndexOfEnd(e) == (e - 1) \div 2

Returned == result.st = "Ok"

FromStart(fn) == call.fn = fn /\ call.start = 0

IsBinaryOp(n) == n.type = "BinaryOp"

Multiplicative(n) == IsBinaryOp(n) /\ n.operator \in {"Star", "Slash"}

Additive(n) == IsBinaryOp(n) /\ n.operator \in {"Plus", "Minus"}

ArithOnly == \A i \in DOMAIN tokens : tokens[i].kind \in {"Int", "Plus", "Minus", "Star", "Slash"}

\* in a stream without parentheses the operator of a BinaryOp node is the
\* token right after its left operand
OperatorIndex(n) == IndexOfEnd(n.lhs.location.end_byte) + 1

Neighbours(m, a) ==
    \/ OperatorIndex(a) = OperatorIndex(m) + 2
    \/ OperatorIndex(m) = OperatorIndex(a) + 2

\* the literal node of the i-th token
Lit(i) == [type |-> "IntLiteral", value |-> 1, location |-> Location(2 * i, 2 * i + 1)]

Bin(l, op, r) ==
    [type |-> "BinaryOp", lhs |-> l, operator |-> op, rhs |-> r,
     location |-> Location(l.location.start_byte, r.location.end_byte)]

(***************************************************************************)
(* C1 as stated: a multiplicative node that has a neighbouring additive    *)
(* operator in the tree is a direct operand of a neighbouring additive     *)
(* node.                                                                   *)
(***************************************************************************)
C1_MultiplicativeIsDirectOperand ==
    (Returned /\ ArithOnly) =>
        LET ns == Nodes(result.expr) IN
        \A i \in DOMAIN ns :
            (/\ Multiplicative(ns[i])
             /\ \E j \in DOMAIN ns : Additive(ns[j]) /\ Neighbours(ns[i], ns[j]))
                => \E j \in DOMAIN ns :
                      /\ Additive(ns[j])
                      /\ Neighbours(ns[i], ns[j])
                      /\ (ns[j].lhs = ns[i] \/ ns[j].rhs = ns[i])

(***************************************************************************)
(* C1 amended: in every tree returned for a stream of numeric literals and *)
(* + - * /, a multiplicative node lies inside an operand of every          *)
(* neighbouring additive node (it is that operand or nested in it), no     *)
(* operand of a multiplicative node is an additive node, and "1 + 2 * 3"   *)
(* and "1 * 2 + 3" yield the two trees the claim names.                    *)
(***************************************************************************)
C1_MultiplicativeBindsTighter ==
    (Returned /\ ArithOnly) =>
        LET ns == Nodes(result.expr) IN
        /\ \A i, j \in DOMAIN ns :
              (Multiplicative(ns[i]) /\ Additive(ns[j]) /\ Neighbours(ns[i], ns[j]))
                  => (Inside(ns[i], ns[j].lhs) \/ Inside(ns[i], ns[j].rhs))
        /\ \A i \in DOMAIN ns :
              Multiplicative(ns[i]) => (~Additive(ns[i].lhs) /\ ~Additive(ns[i].rhs))
        /\ (FromStart("parse_expression") /\ Kinds = <<"Int", "Plus", "Int", "Star", "Int">>)
              => result.expr = Bin(Lit(1), "Plus", Bin(Lit(3), "Star", Lit(5)))
        /\ (FromStart("parse_expression") /\ Kinds = <<"Int", "Star", "Int", "Plus", "Int">>)
              => result.expr = Bin(Bin(Lit(1), "Star", Lit(3)), "Plus", Lit(5))

\* "1 + 2 * 3 * 4" was parsed: the first * is nested in the right operand of +
C1_Witness ==
    /\ Returned
    /\ FromStart("parse_expression")
    /\ Kinds = <<"Int", "Plus", "Int", "Star", "Int", "Star", "Int">>
    /\ result.expr = Bin(Lit(1), "Plus", Bin(Bin(Lit(3), "Star", Lit(5)), "Star", Lit(7)))
    /\ cursor = 7

ThreeOperands ==
    /\ FromStart("parse_expression")
    /\ Len(tokens) = 5
    /\ \A i \in {1, 3, 5} : tokens[i].kind = "Int"
    /\ \A i \in {2, 4} : is_binary_op(tokens[i].kind)
    /\ get_precedence(tokens[2].kind) = get_precedence(tokens[4].kind)

(***************************************************************************)
(* C2 as stated: `a op1 b op2 c` with operators of equal strength yields   *)
(* BinaryOp(a, op1, BinaryOp(b, op2, c)).                                  *)
(***************************************************************************)
C2_GroupsToTheRight ==
    ThreeOperands =>
        /\ Returned
        /\ result.expr = Bin(Lit(1), tokens[2].kind, Bin(Lit(3), tokens[4].kind, Lit(5)))

(***************************************************************************)
(* C2 amended: a chain of binary operators of equal strength groups to the *)
(* left: `a op1 b op2 c` yields BinaryOp(BinaryOp(a, op1, b), op2, c), and *)
(* no right operand in a returned tree is a BinaryOp of the strength of    *)
(* its parent or weaker, because the right operand is parsed with          *)
(* min_precedence set to the consumed operator's strength and the loop     *)
(* stops at an operator that is not strictly stronger.                     *)
(***************************************************************************)
C2_GroupsToTheLeft ==
    /\ ThreeOperands =>
          /\ Returned
          /\ result.expr = Bin(Bin(Lit(1), tokens[2].kind, Lit(3)), tokens[4].kind, Lit(5))
    /\ (Returned /\ ArithOnly) =>
          LET ns == Nodes(result.expr) IN
          \A i \in DOMAIN ns :
              (IsBinaryOp(ns[i]) /\ IsBinaryOp(ns[i].rhs))
                  => get_precedence(ns[i].rhs.operator) > get_precedence(ns[i].operator)

\* "1 - 2 - 3" was parsed
C2_Witness ==
    /\ ThreeOperands
    /\ Kinds = <<"Int", "Minus", "Int", "Minus", "Int">>
    /\ Returned
    /\ IsBinaryOp(result.expr.lhs)
    /\ cursor = 5

(***************************************************************************)
(* C4: when the stream ends right after a consumed binary operator the     *)
(* parse returns Err: no panic, no Ok.                                     *)
(***************************************************************************)
C4_TrailingOperatorIsErr ==
    ( /\ result.st # "None"
      /\ result.pos = Len(tokens)
      /\ Len(tokens) >= 2
      /\ is_binary_op(tokens[Len(tokens)].kind)
      /\ tokens[Len(tokens) - 1].kind = "Int" )
        => result.st = "Err"

(***************************************************************************)
(* C3: every else-continuation of a chain is an element of the falsy       *)
(* sequence of the outermost If node: as many elements as `else` tokens    *)
(* consumed, none without `else`, and for "if a {} else if b {} else {}"   *)
(* a nested If followed by a plain Block.                                  *)
(***************************************************************************)
ElseCount(n) == Cardinality({i \in 1..n : tokens[i].kind = "Else"})

IfChainExample ==
    <<"If", "Ident", "LeftBrace", "RightBrace",
      "Else", "If", "Ident", "LeftBrace", "RightBrace",
      "Else", "LeftBrace", "RightBrace">>

C3_FalsyHoldsEveryElse ==
    (FromStart("parse_expression") /\ Returned /\ result.expr.type = "If") =>
        /\ Len(result.expr.falsy) = ElseCount(result.pos)
        /\ Kinds = IfChainExample =>
              /\ Len(result.expr.falsy) = 2
              /\ result.expr.falsy[1].type = "If"
              /\ result.expr.falsy[2].type = "Block"

(***************************************************************************)
(* C5: a declaration's Var node is mutable exactly when its keyword is     *)
(* `var`; parse_variable returns Ok only when the token right after the    *)
(* initializer is a semicolon, which it consumes, and Err when that token  *)
(* is anything else or missing.                                            *)
(***************************************************************************)
IndexOfStart(b) == b \div 2

\* the cursor after `('var'|'const') IDENT (':' IDENT)? '='` read from s, or 0
DeclHeaderEnd(s) ==
    IF /\ s + 3 <= Len(tokens)
       /\ tokens[s + 1].kind \in {"Var", "Const"}
       /\ tokens[s + 2].kind = "Ident"
       /\ tokens[s + 3].kind = "Equal"
    THEN s + 3
    ELSE IF /\ s + 5 <= Len(tokens)
            /\ tokens[s + 1].kind \in {"Var", "Const"}
            /\ tokens[s + 2].kind = "Ident"
            /\ tokens[s + 3].kind = "Colon"
            /\ tokens[s + 4].kind = "Ident"
            /\ tokens[s + 5].kind = "Equal"
    THEN s + 5
    ELSE 0

DeclCall ==
    /\ call.fn = "parse_expression"
    /\ call.start < Len(tokens)
    /\ tokens[call.start + 1].kind \in {"Var", "Const"}

C5_MutabilityAndSemicolon ==
    /\ (DeclCall /\ Returned) =>
          LET q == DeclHeaderEnd(call.start)
              value == parse_initializer(q) IN
          /\ result.expr.type = "Var"
          /\ result.expr.mutable = (tokens[call.start + 1].kind = "Var")
          /\ q > 0
          /\ value.st = "Ok"
          /\ result.expr.value = value.expr
          /\ value.pos < Len(tokens)
          /\ tokens[value.pos + 1].kind = "SemiColon"
          /\ cursor = value.pos + 1
    /\ (DeclCall /\ DeclHeaderEnd(call.start) > 0) =>
          LET value == parse_initializer(DeclHeaderEnd(call.start)) IN
          (/\ value.st = "Ok"
           /\ (value.pos >= Len(tokens) \/ tokens[value.pos + 1].kind # "SemiColon"))
              => (result.st = "Err" /\ result.expr.type # "Var")
    /\ Returned =>
          LET ns == Nodes(result.expr) IN
          \A i \in DOMAIN ns :
              ns[i].type = "Var" =>
                  /\ tokens[IndexOfStart(ns[i].location.start_byte)].kind \in {"Var", "Const"}
                  /\ ns[i].mutable
                        <=> tokens[IndexOfStart(ns[i].location.start_byte)].kind = "Var"

\* "const x = 1;" was parsed
C5_Witness ==
    /\ DeclCall
    /\ Returned
    /\ Kinds = <<"Const", "Ident", "Equal", "Int", "SemiColon">>
    /\ result.expr.type = "Var"
    /\ ~result.expr.mutable
    /\ cursor = 5

(***************************************************************************)
(* C6: every node of a returned tree has start <= end, and the location of *)
(* every composite node contains the location of each direct child.        *)
(***************************************************************************)
WellFormed(n) == n.location.start_byte <= n.location.end_byte

Contains(parent, child) ==
    /\ child.location.start_byte >= parent.location.start_byte
    /\ child.location.end_byte <= parent.location.end_byte

C6_LocationsNest ==
    Returned =>
        LET ns == Nodes(result.expr) IN
        \A i \in DOMAIN ns :
            /\ WellFormed(ns[i])
            /\ \A k \in DOMAIN Children(ns[i]) : Contains(ns[i], Children(ns[i])[k])

\* "(1) + 1" was parsed: the left operand came from a parenthesized group
C6_Witness ==
    /\ Returned
    /\ FromStart("parse_expression")
    /\ Kinds = <<"LeftParen", "Int", "RightParen", "Plus", "Int">>
    /\ result.expr = Bin(Lit(2), "Plus", Lit(5))
    /\ cursor = 5

(***************************************************************************)
(* C7: the root's location runs from the start of the first token the      *)
(* parse consumed to the end of the last token it consumed.                *)
(***************************************************************************)
C7_RootSpansConsumedTokens ==
    Returned =>
        result.expr.location = Location(tokens[call.start + 1].location.start_byte,
                                        tokens[result.pos].location.end_byte)

(***************************************************************************)
(* C8: a call whose argument list is made of literals and commas is        *)
(* accepted only if the list is empty or literals separated by single      *)
(* commas (no leading, trailing or doubled comma); the arguments are the   *)
(* literals in source order.                                               *)
(***************************************************************************)
LiteralCall ==
    /\ FromStart("parse_expression")
    /\ Returned
    /\ result.expr.type = "FunCall"
    /\ tokens[1].kind = "Ident"
    /\ tokens[2].kind = "LeftParen"
    /\ \A i \in 3..(result.pos - 1) : tokens[i].kind \in {"Int", "Comma"}

C8_ArgumentListGrammar ==
    LiteralCall =>
        LET n == result.pos - 3 IN
        /\ n = 0 \/ n % 2 = 1
        /\ \A k \in 1..n : tokens[2 + k].kind = (IF k % 2 = 1 THEN "Int" ELSE "Comma")
        /\ Len(result.expr.arguments) = (n + 1) \div 2
        /\ \A k \in DOMAIN result.expr.arguments : result.expr.arguments[k] = Lit(2 * k + 1)

(***************************************************************************)
(* C9: every call that returns Ok has consumed at least one token, every   *)
(* pass through one of the four loops either leaves the loop or consumes   *)
(* at least one token, no loop repeats for ever, and the cursor never      *)
(* moves backwards.                                                        *)
(***************************************************************************)
Strengths == {BASE, SUM, MUL, ASSOC, APPLY}

Progress(r, p) == r.st # "Diverge" /\ r.pos >= p /\ (r.st = "Ok" => r.pos > p)

StepProgress(r, p) ==
    r.st # "Diverge" /\ r.pos >= p /\ ((r.st = "Ok" /\ ~r.exit) => r.pos > p)

SomeLeft == [type |-> "Ident", name |-> "x", location |-> Location(0, 1)]

C9_Progress ==
    /\ cursor >= call.start
    /\ result.st # "Diverge"
    /\ (Returned /\ call.fn # "none") => cursor > call.start
    \* the calls and loop passes at every cursor of the stream, top-level or
    \* nested; they read `tokens` only, which no action changes
    /\ call = NoCall => \A p \in 0..Len(tokens) :
          /\ Progress(parse_expression(p), p)
          /\ \A m \in Strengths : Progress(parse_with_precedence(p, m), p)
          /\ \A m \in Strengths : StepProgress(precedence_loop_step(p, SomeLeft, m), p)
          /\ StepProgress(block_loop_step(p, <<>>), p)
          /\ StepProgress(fun_call_loop_step(p, <<>>), p)
          /\ StepProgress(if_loop_step(p, <<>>), p)

\* "f(1, 1)" was parsed: the call loop passed over a comma and two arguments
C9_Witness ==
    /\ Returned
    /\ Kinds = <<"Ident", "LeftParen", "Int", "Comma", "Int", "RightParen">>
    /\ result.expr.type = "FunCall"
    /\ Len(result.expr.arguments) = 2
    /\ call.start = 0
    /\ cursor = 6

(***************************************************************************)
(* C10: when the primary is an Ident followed by `(` (or by `=`) the       *)
(* invocation returns what parse_fun_call (parse_assign) returns: on Ok a  *)
(* FunCall (Assign) node, the cursor right after its closing `)` (`;`),    *)
(* whatever min_precedence is; every callee and every assignment target in *)
(* a returned tree is an Ident.                                            *)
(***************************************************************************)
Postfix(kind) ==
    /\ call.fn # "none"
    /\ LET primary == parse_primary(call.start) IN
       /\ primary.st = "Ok"
       /\ primary.expr.type = "Ident"
       /\ primary.pos < Len(tokens)
       /\ tokens[primary.pos + 1].kind = kind

C10_PostfixReturnsEarly ==
    /\ Postfix("LeftParen") =>
          LET primary == parse_primary(call.start) IN
          /\ result = parse_fun_call(primary.pos, primary.expr)
          /\ Returned =>
                /\ result.expr.type = "FunCall"
                /\ result.expr.ident = primary.expr
                /\ tokens[cursor].kind = "RightParen"
                /\ result.expr.location.end_byte = tokens[cursor].location.end_byte
    /\ Postfix("Equal") =>
          LET primary == parse_primary(call.start) IN
          /\ result = parse_assign(primary.pos, primary.expr)
          /\ Returned =>
                /\ result.expr.type = "Assign"
                /\ result.expr.ident = primary.expr
                /\ tokens[cursor].kind = "SemiColon"
                /\ result.expr.location.end_byte = tokens[cursor].location.end_byte
    /\ Returned =>
          LET ns == Nodes(result.expr) IN
          \A i \in DOMAIN ns :
              ns[i].type \in {"FunCall", "Assign"} => ns[i].ident.type = "Ident"

\* "f(1) + 1" was parsed with min_precedence = BASE: the `+` is left unread
C10_Witness ==
    /\ Postfix("LeftParen")
    /\ call = [fn |-> "parse_with_precedence", min_precedence |-> BASE, start |-> 0]
    /\ Kinds = <<"Ident", "LeftParen", "Int", "RightParen", "Plus", "Int">>
    /\ Returned
    /\ result.expr.type = "FunCall"
    /\ cursor = 4
====
